---- MODULE Spec2Model ----
(***************************************************************************)
(* Cognitive Calendar: the GET /api/events pipeline of server/index.js and *)
(* the scoring engine of server/logic.js.                                  *)
(*                                                                         *)
(* JavaScript numbers are IEEE-754 binary64.  Every arithmetic result of   *)
(* logic.js is modelled with its binary64 rounding (round to nearest, ties *)
(* to even), because the code compares and re-adds rounded values:         *)
(* a Number is [nan, m, e], the value m * 2^e with m an odd natural kept   *)
(* as a little-endian sequence of 15-bit limbs (<<>> is 0), or NaN.        *)
(* Instants are whole minutes, so (end - start) / 60000 is an integer.     *)
(***************************************************************************)
EXTENDS Integers, Sequences, FiniteSets, TLC

(***************************************************************************)
(* Naturals of arbitrary size (the 53-bit significands and their exact     *)
(* sums and products).                                                     *)
(***************************************************************************)
LimbBits == 15

Base == 2 ^ LimbBits

RECURSIVE BTrim(_)
BTrim(b) ==
  IF b = <<>> THEN <<>>
  ELSE IF b[Len(b)] = 0 THEN BTrim(SubSeq(b, 1, Len(b) - 1)) ELSE b

RECURSIVE BFromInt(_)
BFromInt(n) == IF n = 0 THEN <<>> ELSE <<n % Base>> \o BFromInt(n \div Base)

RECURSIVE BToInt(_)
BToInt(b) == IF b = <<>> THEN 0 ELSE b[1] + Base * BToInt(Tail(b))

Limb(b, i) == IF i <= Len(b) THEN b[i] ELSE 0

RECURSIVE BAddFrom(_, _, _, _)
BAddFrom(a, b, i, c) ==
  IF i > Len(a) /\ i > Len(b) THEN (IF c = 0 THEN <<>> ELSE <<c>>)
  ELSE LET s == Limb(a, i) + Limb(b, i) + c
       IN  <<s % Base>> \o BAddFrom(a, b, i + 1, s \div Base)

BAdd(a, b) == BAddFrom(a, b, 1, 0)

RECURSIVE BSubFrom(_, _, _, _)
BSubFrom(a, b, i, br) ==
  IF i > Len(a) THEN <<>>
  ELSE LET d == Limb(a, i) - Limb(b, i) - br
       IN  IF d < 0 THEN <<d + Base>> \o BSubFrom(a, b, i + 1, 1)
           ELSE <<d>> \o BSubFrom(a, b, i + 1, 0)

\* a - b for a >= b
BSub(a, b) == BTrim(BSubFrom(a, b, 1, 0))

RECURSIVE BCmpAt(_, _, _)
BCmpAt(a, b, i) ==
  IF i = 0 THEN 0
  ELSE IF a[i] < b[i] THEN -1
  ELSE IF a[i] > b[i] THEN 1
  ELSE BCmpAt(a, b, i - 1)

\* -1, 0, 1 as a < b, a = b, a > b
BCmp(a, b) ==
  IF Len(a) < Len(b) THEN -1
  ELSE IF Len(a) > Len(b) THEN 1
  ELSE BCmpAt(a, b, Len(a))

RECURSIVE BMulSmallFrom(_, _, _, _)
BMulSmallFrom(a, s, i, c) ==
  IF i > Len(a) THEN BFromInt(c)
  ELSE LET p == a[i] * s + c
       IN  <<p % Base>> \o BMulSmallFrom(a, s, i + 1, p \div Base)

\* a * s for 0 <= s <= Base
BMulSmall(a, s) == BTrim(BMulSmallFrom(a, s, 1, 0))

BShlLimbs(a, w) == IF a = <<>> THEN <<>> ELSE [i \in 1..w |-> 0] \o a

RECURSIVE BMulFrom(_, _, _)
BMulFrom(a, b, i) ==
  IF i > Len(b) THEN <<>>
  ELSE BAdd(BShlLimbs(BMulSmall(a, b[i]), i - 1), BMulFrom(a, b, i + 1))

BMul(a, b) == BTrim(BMulFrom(a, b, 1))

\* a * 2^n
BShl(a, n) == BShlLimbs(BMulSmall(a, 2 ^ (n % LimbBits)), n \div LimbBits)

RECURSIVE BDivFrom(_, _, _, _)
BDivFrom(a, d, i, r) ==
  IF i = 0 THEN <<>>
  ELSE LET cur == r * Base + a[i]
       IN  BDivFrom(a, d, i - 1, cur % d) \o <<cur \div d>>

RECURSIVE BRemFrom(_, _, _, _)
BRemFrom(a, d, i, r) ==
  IF i = 0 THEN r ELSE BRemFrom(a, d, i - 1, (r * Base + a[i]) % d)

\* floor(a / d) and a mod d for 1 <= d <= Base (long division from the top limb)
BDivSmall(a, d) == BTrim(BDivFrom(a, d, Len(a), 0))

BRemSmall(a, d) == BRemFrom(a, d, Len(a), 0)

\* floor(a / 2^n)
BShr(a, n) ==
  LET w == n \div LimbBits
  IN  IF w >= Len(a) THEN <<>>
      ELSE BDivSmall(SubSeq(a, w + 1, Len(a)), 2 ^ (n % LimbBits))

RECURSIVE IntBitLen(_)
IntBitLen(x) == IF x = 0 THEN 0 ELSE 1 + IntBitLen(x \div 2)

BBitLen(a) ==
  IF a = <<>> THEN 0 ELSE (Len(a) - 1) * LimbBits + IntBitLen(a[Len(a)])

RECURSIVE IntTrailingZeros(_)
IntTrailingZeros(x) == IF x % 2 = 1 THEN 0 ELSE 1 + IntTrailingZeros(x \div 2)

(***************************************************************************)
(* IEEE-754 binary64 values and the operations logic.js applies to them.   *)
(***************************************************************************)
Precision == 53

NaN == [nan |-> TRUE, m |-> <<>>, e |-> 0]

Zero == [nan |-> FALSE, m |-> <<>>, e |-> 0]

\* the canonical form of m * 2^e: m odd, or zero
RECURSIVE FNorm(_, _)
FNorm(m, e) ==
  IF m = <<>> THEN Zero
  ELSE IF m[1] = 0 THEN FNorm(Tail(m), e + LimbBits)
  ELSE LET t == IntTrailingZeros(m[1])
       IN  [nan |-> FALSE, m |-> BShr(m, t), e |-> e + t]

\* m * 2^e rounded to a 53-bit significand: to nearest, ties to even
Round(m, e) ==
  LET len == BBitLen(m)
  IN  IF len <= Precision THEN FNorm(m, e)
      ELSE LET s    == len - Precision
               q    == BShr(m, s)
               r    == BSub(m, BShl(q, s))
               c    == BCmp(r, BShl(<<1>>, s - 1))
               up   == c > 0 \/ (c = 0 /\ q[1] % 2 = 1)
           IN  FNorm(IF up THEN BAdd(q, <<1>>) ELSE q, e + s)

FromInt(n) == FNorm(BFromInt(n), 0)

MinExp(x, y) == IF x.e < y.e THEN x.e ELSE y.e

\* the significand of x at exponent e0 <= x.e
Aligned(x, e0) == BShl(x.m, x.e - e0)

\* x + y
FAdd(x, y) ==
  IF x.nan \/ y.nan THEN NaN
  ELSE LET e0 == MinExp(x, y)
       IN  Round(BAdd(Aligned(x, e0), Aligned(y, e0)), e0)

\* -1, 0, 1 as x < y, x = y, x > y (both finite)
FCmp(x, y) == LET e0 == MinExp(x, y) IN BCmp(Aligned(x, e0), Aligned(y, e0))

\* x <= y, false when either is NaN, as every comparison with NaN is
FLeq(x, y) == ~x.nan /\ ~y.nan /\ FCmp(x, y) <= 0

FLess(x, y) == ~x.nan /\ ~y.nan /\ FCmp(x, y) < 0

\* Math.max(0, x - y)
MaxZeroSub(x, y) ==
  IF x.nan \/ y.nan THEN NaN
  ELSE IF FCmp(x, y) <= 0 THEN Zero
  ELSE LET e0 == MinExp(x, y)
       IN  Round(BSub(Aligned(x, e0), Aligned(y, e0)), e0)

\* x * y
FMul(x, y) ==
  IF x.nan \/ y.nan THEN NaN ELSE Round(BMul(x.m, y.m), x.e + y.e)

GuardBits == 64

\* x / n for an integer 1 <= n <= Base: the quotient is cut after GuardBits
\* more bits and a sticky bit records an inexact cut, then rounded once
FDiv(x, n) ==
  IF x.nan THEN NaN
  ELSE IF x.m = <<>> THEN Zero
  ELSE LET num == BShl(x.m, GuardBits)
           q   == BShl(BDivSmall(num, n), 1)
       IN  Round(IF BRemSmall(num, n) = 0 THEN q ELSE BAdd(q, <<1>>),
                 x.e - GuardBits - 1)

\* the Number a decimal literal with three fraction digits denotes: k / 1000
Num(k) == FDiv(FromInt(k), 1000)

\* value.toFixed(3) in thousandths: the integer n with n / 1000 nearest to the
\* exact value, the larger n of two equally near
ToFixed3(x) ==
  IF x.e >= 0 THEN BToInt(BShl(x.m, x.e)) * 1000
  ELSE LET t == 0 - x.e
       IN  BToInt(BShr(BAdd(BMulSmall(x.m, 2000), BShl(<<1>>, t)), t + 1))

(***************************************************************************)
(* server/logic.js: the baseline tables and the pure scoring functions.    *)
(* Num(k) is the Number the decimal literal k / 1000 denotes.              *)
(***************************************************************************)
\* The module-level object BASELINES: set when logic.js is loaded, read by
\* every scoring function, and an ordinary mutable object.
VARIABLE BASELINES

\* the object literal BASELINES is initialised with
BaselineTables ==
  [meetingType |->
     ("standup" :> Num(200) @@ "status" :> Num(300) @@ "demo" :> Num(400)
      @@ "planning" :> Num(600) @@ "brainstorming" :> Num(700)
      @@ "design_review" :> Num(800) @@ "decision" :> Num(900)
      @@ "conflict" :> Num(1000)),
   roleLoad |->
     ("listener" :> Num(300) @@ "occasional_contributor" :> Num(500)
      @@ "contributor" :> Num(800) @@ "decision_maker" :> Num(1000)),
   emotionalLoad |->
     ("routine" :> Num(200) @@ "external" :> Num(400) @@ "feedback" :> Num(600)
      @@ "performance" :> Num(800) @@ "conflict" :> Num(1000)),
   socialLoad |->
     ("1-2" :> Num(200) @@ "3-5" :> Num(400) @@ "6-10" :> Num(600)
      @@ "11-20" :> Num(800) @@ "20+" :> Num(1000)),
   topicChangeCost |->
     ("same_project" :> Num(0) @@ "related_domain" :> Num(300)
      @@ "different_domain" :> Num(700) @@ "unrelated" :> Num(1000)),
   gapTimeDampener |->
     ("0-5" :> Num(1000) @@ "5-15" :> Num(800) @@ "15-30" :> Num(500)
      @@ "30+" :> Num(200)),
   timeOfDayMultiplier |->
     ("morning" :> Num(1000) @@ "midday" :> Num(1100) @@ "afternoon" :> Num(1200)
      @@ "evening" :> Num(1400))]

\* the literals of computeSingleEvent: the defaults of the three lookups and
\* the weights of the mental load
DefaultComplexity == Num(300)

DefaultRoleLoad == Num(500)

DefaultEmotionalLoad == Num(400)

ComplexityWeight == Num(400)

RoleWeight == Num(300)

EmotionalWeight == Num(300)

\* the initial capacity, the points of a full load, the high-risk threshold, the
\* minutes of recovery of a full load
FullCapacity == FromInt(100)

CostScale == FromInt(100)

RiskThreshold == FromInt(20)

RecoveryScale == FromInt(20)

\* the bounds of the gap buckets, in minutes
GapBounds == <<FromInt(5), FromInt(15), FromInt(30)>>

\* table[key] ?? dflt
Lookup(table, key, dflt) == IF key \in DOMAIN table THEN table[key] ELSE dflt

\* a property that is not there (or any other falsy value: x || y takes y)
Undefined == "undefined"

Falsy(x) == x \in {Undefined, ""}

\* x || y on strings
Or(x, y) == IF Falsy(x) THEN y ELSE x

\* an optional instant or array: absent, or the value
Absent == [kind |-> "absent", items |-> <<>>]

Array(items) == [kind |-> "array", items |-> items]

\* Math.max(0, Math.min(1, Number(value.toFixed(3))))
\* Math.max(0, Math.min(1, n / 1000))
Unit(n) == Num(IF n > 1000 THEN 1000 ELSE IF n < 0 THEN 0 ELSE n)


\* clamp without Math.min(1, ...)
clamp_NoUpperBound(value) ==
  IF value.nan THEN NaN
  ELSE Num(IF ToFixed3(value) < 0 THEN 0 ELSE ToFixed3(value))

clamp(value) == IF value.nan THEN NaN ELSE Unit(ToFixed3(value))


\* fallbackClassification with event.topicTags || []
fallbackClassification_EmptyTags(event) ==
  [meeting_type        |-> Or(event.meetingType, "status"),
   role                |-> Or(event.userRole, "contributor"),
   emotional_intensity |-> Or(event.emotionalIntensity, "routine"),
   topic_tags          |-> event.topicTags.items]

fallbackClassification(event) ==
  [meeting_type        |-> Or(event.meetingType, "status"),
   role                |-> Or(event.userRole, "contributor"),
   emotional_intensity |-> Or(event.emotionalIntensity, "routine"),
   topic_tags          |-> IF event.topicTags.kind = "absent"
                           THEN <<"general">>
                           ELSE event.topicTags.items]


\* parseGeminiOutput without its try: a text that is no JSON, or null, makes it
\* throw, and no classification comes back
parseGeminiOutput_NoTry(text, event) ==
  IF text.syntax # "json" \/ text.value.kind = "null"
  THEN [meeting_type |-> Undefined, role |-> Undefined,
        emotional_intensity |-> Undefined, topic_tags |-> <<>>]
  ELSE IF Falsy(text.value.meeting_type) \/ Falsy(text.value.role)
          \/ Falsy(text.value.emotional_intensity)
  THEN fallbackClassification(event)
  ELSE [meeting_type        |-> text.value.meeting_type,
        role                |-> text.value.role,
        emotional_intensity |-> text.value.emotional_intensity,
        topic_tags          |-> IF text.value.topic_tags.kind = "array"
                                THEN text.value.topic_tags.items
                                ELSE <<>>]

\* text is [syntax, value]: JSON.parse throws unless the syntax is JSON; a
\* property read of null throws; every throw is caught and falls back
parseGeminiOutput(text, event) ==
  IF text.syntax # "json" THEN fallbackClassification(event)
  ELSE LET parsed == text.value
       IN  IF parsed.kind = "null" THEN fallbackClassification(event)
           ELSE IF Falsy(parsed.meeting_type) \/ Falsy(parsed.role)
                   \/ Falsy(parsed.emotional_intensity)
           THEN fallbackClassification(event)
           ELSE [meeting_type        |-> parsed.meeting_type,
                 role                |-> parsed.role,
                 emotional_intensity |-> parsed.emotional_intensity,
                 topic_tags          |-> IF parsed.topic_tags.kind = "array"
                                         THEN parsed.topic_tags.items
                                         ELSE <<>>]


\* mapGapDampener with < for <=
mapGapDampener_Strict(minutes) ==
  IF FLess(minutes, GapBounds[1]) THEN BASELINES.gapTimeDampener["0-5"]
  ELSE IF FLess(minutes, GapBounds[2]) THEN BASELINES.gapTimeDampener["5-15"]
  ELSE IF FLess(minutes, GapBounds[3]) THEN BASELINES.gapTimeDampener["15-30"]
  ELSE BASELINES.gapTimeDampener["30+"]

mapGapDampener(minutes) ==
  IF FLeq(minutes, GapBounds[1]) THEN BASELINES.gapTimeDampener["0-5"]
  ELSE IF FLeq(minutes, GapBounds[2]) THEN BASELINES.gapTimeDampener["5-15"]
  ELSE IF FLeq(minutes, GapBounds[3]) THEN BASELINES.gapTimeDampener["15-30"]
  ELSE BASELINES.gapTimeDampener["30+"]

mapSocialLoad(attendees) ==
  IF attendees <= 2 THEN BASELINES.socialLoad["1-2"]
  ELSE IF attendees <= 5 THEN BASELINES.socialLoad["3-5"]
  ELSE IF attendees <= 10 THEN BASELINES.socialLoad["6-10"]
  ELSE IF attendees <= 20 THEN BASELINES.socialLoad["11-20"]
  ELSE BASELINES.socialLoad["20+"]

\* date is an optional instant in minutes; getHours() of an invalid Date is NaN
getTimeOfDay(date) ==
  IF date = <<>> THEN "evening"
  ELSE LET hour == (date[1] \div 60) % 24
       IN  IF hour < 12 THEN "morning"
           ELSE IF hour < 15 THEN "midday"
           ELSE IF hour < 18 THEN "afternoon"
           ELSE "evening"

\* (later - earlier) / 60000 where either Date may be invalid: NaN, or the
\* whole minutes between them, which may be negative
MinutesBetween(earlier, later) ==
  IF earlier = <<>> \/ later = <<>> THEN <<>> ELSE <<later[1] - earlier[1]>>

\* Math.max(floor, minutes): NaN if minutes is NaN
MaxWith(floor, minutes) ==
  IF minutes = <<>> THEN NaN
  ELSE FromInt(IF minutes[1] > floor THEN minutes[1] ELSE floor)


\* computeContextSwitch without if (!prev) return 0: no tag is shared with
\* nothing and the gap is NaN
computeContextSwitch_NoGuard(event, prev) ==
  IF prev = <<>>
  THEN clamp(FMul(BASELINES.topicChangeCost["unrelated"], mapGapDampener(NaN)))
  ELSE clamp(FMul(IF \E i \in DOMAIN event.classification.topic_tags :
                       \E j \in DOMAIN prev[1].classification.topic_tags :
                         event.classification.topic_tags[i]
                           = prev[1].classification.topic_tags[j]
                  THEN BASELINES.topicChangeCost["related_domain"]
                  ELSE BASELINES.topicChangeCost["unrelated"],
                  mapGapDampener(MaxWith(0, MinutesBetween(prev[1].end,
                                                           event.start)))))

\* prev is <<>> (undefined) or <<the scored event before>>
computeContextSwitch(event, prev) ==
  IF prev = <<>> THEN Zero
  ELSE LET overlap == \E i \in DOMAIN event.classification.topic_tags :
                        \E j \in DOMAIN prev[1].classification.topic_tags :
                          event.classification.topic_tags[i]
                            = prev[1].classification.topic_tags[j]
           topicCost == IF overlap
                        THEN BASELINES.topicChangeCost["related_domain"]
                        ELSE BASELINES.topicChangeCost["unrelated"]
           gapMinutes == MaxWith(0, MinutesBetween(prev[1].end, event.start))
           gapDampener == mapGapDampener(gapMinutes)
       IN  clamp(FMul(topicCost, gapDampener))

\* Each value computed on the way is handed on as a parameter, so that it is
\* computed once, as the const it is bound to in the code.

\* the object computeSingleEvent returns
ScoredFields(event, durationMinutes, complexity, roleLoad, emotionalLoad, mentalLoad, contextSwitchCost, totalLoad, multiplier, socialLoad) ==
  [durationMinutes   |-> durationMinutes,
   mentalLoad        |-> mentalLoad,
   contextSwitchCost |-> contextSwitchCost,
   totalLoad         |-> totalLoad,
   recoveryMinutes   |-> FMul(FMul(totalLoad, RecoveryScale), multiplier),
   timeOfDay         |-> getTimeOfDay(event.start),
   socialLoad        |-> socialLoad,
   capacityCost      |-> FMul(totalLoad, CostScale),
   explanation       |->
     [complexity          |-> complexity,
      roleLoad            |-> roleLoad,
      emotionalLoad       |-> emotionalLoad,
      socialLoad          |-> socialLoad,
      mentalLoad          |-> mentalLoad,
      contextSwitchCost   |-> contextSwitchCost,
      timeOfDayMultiplier |-> multiplier,
      topicTags           |-> event.classification.topic_tags]]
  @@ event


\* computeSingleEvent with totalLoad = mentalLoad + contextSwitchCost, unclamped
WithLoads_NoClamp(event, durationMinutes, complexity, roleLoad, emotionalLoad, mentalLoad, contextSwitchCost) ==
  ScoredFields(event, durationMinutes, complexity, roleLoad, emotionalLoad,
               mentalLoad, contextSwitchCost,
               FAdd(mentalLoad, contextSwitchCost),
               BASELINES.timeOfDayMultiplier[getTimeOfDay(event.start)],
               mapSocialLoad(IF event.attendeeCount = 0 THEN 1
                             ELSE event.attendeeCount))

\* clamp(mentalLoad + contextSwitchCost), the multiplier and the social load
WithLoads(event, durationMinutes, complexity, roleLoad, emotionalLoad, mentalLoad, contextSwitchCost) ==
  ScoredFields(event, durationMinutes, complexity, roleLoad, emotionalLoad,
               mentalLoad, contextSwitchCost,
               clamp(FAdd(mentalLoad, contextSwitchCost)),
               BASELINES.timeOfDayMultiplier[getTimeOfDay(event.start)],
               mapSocialLoad(IF event.attendeeCount = 0 THEN 1
                             ELSE event.attendeeCount))


\* mentalLoadRaw with the three factors weighted alike
mentalLoadRaw_EqualWeights(durationMinutes, complexity, roleLoad, emotionalLoad) ==
  FMul(FDiv(durationMinutes, 60),
       FDiv(FAdd(FAdd(complexity, roleLoad), emotionalLoad), 3))

\* (durationMinutes / 60) * (0.4 * complexity + 0.3 * roleLoad + 0.3 * emotionalLoad)
mentalLoadRaw(durationMinutes, complexity, roleLoad, emotionalLoad) ==
  FMul(FDiv(durationMinutes, 60),
       FAdd(FAdd(FMul(ComplexityWeight, complexity),
                 FMul(RoleWeight, roleLoad)),
            FMul(EmotionalWeight, emotionalLoad)))

WithFactors(event, prev, durationMinutes, complexity, roleLoad, emotionalLoad) ==
  WithLoads(event, durationMinutes, complexity, roleLoad, emotionalLoad,
            clamp(mentalLoadRaw(durationMinutes, complexity, roleLoad,
                                emotionalLoad)),
            computeContextSwitch(event, prev))

computeSingleEvent(event, prev) ==
  WithFactors(event, prev,
              MaxWith(15, MinutesBetween(event.start, event.end)),
              Lookup(BASELINES.meetingType,
                     event.classification.meeting_type, DefaultComplexity),
              Lookup(BASELINES.roleLoad, event.classification.role,
                     DefaultRoleLoad),
              Lookup(BASELINES.emotionalLoad,
                     event.classification.emotional_intensity,
                     DefaultEmotionalLoad))

\* the loop of computeEventLoads from index i on: enriched holds the scored
\* events so far, runningCapacity the value after them
RECURSIVE ScoreFrom(_, _, _, _)

\* enriched.push({...computed, capacityRemaining: runningCapacity})
ScorePush(evs, i, enriched, computed, runningCapacity) ==
  ScoreFrom(evs, i + 1,
            Append(enriched,
                   ("capacityRemaining" :> runningCapacity) @@ computed),
            runningCapacity)

\* runningCapacity = Math.max(0, runningCapacity - computed.capacityCost)
ScoreStep(evs, i, enriched, runningCapacity, computed) ==
  ScorePush(evs, i, enriched, computed,
            MaxZeroSub(runningCapacity, computed.capacityCost))

ScoreFrom(evs, i, enriched, runningCapacity) ==
  IF i > Len(evs) THEN enriched
  ELSE ScoreStep(evs, i, enriched, runningCapacity,
                 computeSingleEvent(evs[i], IF i = 1 THEN <<>>
                                            ELSE <<enriched[i - 1]>>))

computeEventLoads(evs) == ScoreFrom(evs, 1, <<>>, FullCapacity)

\* events.reduce((sum, e) => sum + e[field], 0)
RECURSIVE SumField(_, _, _, _)
SumField(evs, field, i, sum) ==
  IF i > Len(evs) THEN sum
  ELSE SumField(evs, field, i + 1, FAdd(sum, evs[i][field]))

Summary(totalLoad, capacityRemaining) ==
  [totalLoad         |-> totalLoad,
   capacityRemaining |-> capacityRemaining,
   highRisk          |-> FLess(capacityRemaining, RiskThreshold)]


\* buildDailySummary dividing by events.length: 0 / 0 is NaN
buildDailySummary_NoLengthFloor(evs) ==
  Summary(IF evs = <<>> THEN NaN
          ELSE clamp(FDiv(SumField(evs, "totalLoad", 1, Zero), Len(evs))),
          MaxZeroSub(FullCapacity, SumField(evs, "capacityCost", 1, Zero)))

buildDailySummary(evs) ==
  Summary(clamp(FDiv(SumField(evs, "totalLoad", 1, Zero),
                     IF Len(evs) > 1 THEN Len(evs) ELSE 1)),
          MaxZeroSub(FullCapacity, SumField(evs, "capacityCost", 1, Zero)))

(***************************************************************************)
(* The calendar source (server/mockEvents.js) and the external categorizer *)
(* are outside the code at hand: both are drawn from small pools.          *)
(***************************************************************************)
MaxEvents == 2

\* attendeeCount 0 stands for a count that is not given
RawEvent(id, start, end, attendeeCount, mType, uRole, intensity, tags) ==
  [id |-> id, start |-> start, end |-> end, attendeeCount |-> attendeeCount,
   meetingType |-> mType, userRole |-> uRole, emotionalIntensity |-> intensity,
   topicTags |-> tags]

\* instants are minutes of one day; the ids are not in order of start
EventPool ==
  { RawEvent(1, <<600>>, <<660>>, 2, "decision", "decision_maker", "conflict",
             Array(<<"product">>)),
    RawEvent(2, <<540>>, <<600>>, 2, "standup", "listener", "routine",
             Array(<<"infra">>)),
    RawEvent(3, <<610>>, <<610>>, 0, Undefined, Undefined, Undefined, Absent),
    RawEvent(4, <<780>>, <<1080>>, 25, "workshop", "contributor", "feedback",
             Array(<<"infra", "ops">>)),
    RawEvent(5, <<>>, <<>>, 8, "planning", Undefined, "external", Array(<<>>)),
    RawEvent(6, <<1110>>, <<1095>>, 4, "demo", "occasional_contributor",
             Undefined, Array(<<"product", "ops">>)) }

\* the lists of at most MaxEvents distinct events, in order of id
RECURSIVE InIdOrder(_)
InIdOrder(evs) ==
  IF evs = {} THEN <<>>
  ELSE LET first == CHOOSE e \in evs : \A f \in evs : e.id <= f.id
       IN  <<first>> \o InIdOrder(evs \ {first})

EventLists ==
  { InIdOrder(evs) : evs \in { x \in SUBSET EventPool : Cardinality(x) <= MaxEvents } }

JsonObject(meeting_type, role, emotional_intensity, topic_tags) ==
  [kind |-> "object", meeting_type |-> meeting_type, role |-> role,
   emotional_intensity |-> emotional_intensity, topic_tags |-> topic_tags]

\* a JSON value that is no object: every property read of it is undefined
\* (a read of null throws)
JsonOther(kind) ==
  [kind |-> kind, meeting_type |-> Undefined, role |-> Undefined,
   emotional_intensity |-> Undefined, topic_tags |-> Absent]

Text(syntax, value) == [syntax |-> syntax, value |-> value]

EmptyText == Text("empty", JsonOther("none"))

TextPool ==
  { EmptyText,
    Text("garbage", JsonOther("none")),
    Text("json", JsonOther("null")),
    Text("json", JsonOther("number")),
    Text("json", JsonObject("planning", Undefined, "feedback",
                            Array(<<"infra">>))),
    Text("json", JsonObject("planning", "", "feedback", Array(<<"infra">>))),
    Text("json", JsonObject("brainstorming", "contributor", "external",
                            Array(<<"infra", "roadmap">>))),
    Text("json", JsonObject("conflict", "decision_maker", "conflict", Absent)),
    Text("json", JsonObject("conflict", "decision_maker", "conflict",
                            [kind |-> "string", items |-> <<>>])),
    Text("json", JsonObject("retro", "listener", "routine",
                            Array(<<"a", "b", "c", "d">>))) }

\* what fetch resolves to: the status, whether the body is JSON, and the text
\* of the first candidate's first part (EmptyText when there is none)
Responses ==
  { [ok |-> FALSE, json |-> TRUE, text |-> EmptyText],
    [ok |-> TRUE, json |-> FALSE, text |-> EmptyText] }
  \cup { [ok |-> TRUE, json |-> TRUE, text |-> t] : t \in TextPool }

NoResponse == [ok |-> FALSE, json |-> FALSE, text |-> EmptyText]

NoClassification ==
  [meeting_type |-> Undefined, role |-> Undefined,
   emotional_intensity |-> Undefined, topic_tags |-> <<>>]

NoSummary == [totalLoad |-> NaN, capacityRemaining |-> NaN, highRisk |-> FALSE]

NoReply == [status |-> 0, events |-> <<>>, summary |-> NoSummary]

\* the requests the server may be handling
Requests == {"r1", "r2"}

VARIABLES
  configured,   \* GCP_PROJECT_ID and GCP_LOCATION are both set
  mockEvents,   \* the calendar source
  pc,           \* per request: where its handler stands
  events,       \* per request: the sorted copy of mockEvents
  classified,   \* per request: the events classified so far
  pending,      \* per request: what the classifyWithGemini call in flight returns
  response,     \* per request: the categorizer's response being read
  reply         \* per request: what res.json sent

vars == <<BASELINES, configured, mockEvents, pc, events, classified, pending,
          response, reply>>

Init ==
  /\ BASELINES = BaselineTables
  /\ configured \in BOOLEAN
  /\ mockEvents \in EventLists
  /\ pc = [r \in Requests |-> "idle"]
  /\ events = [r \in Requests |-> <<>>]
  /\ classified = [r \in Requests |-> <<>>]
  /\ pending = [r \in Requests |-> NoClassification]
  /\ response = [r \in Requests |-> NoResponse]
  /\ reply = [r \in Requests |-> NoReply]

(***************************************************************************)
(* server/index.js, GET /api/events.  A step runs from one await to the    *)
(* next, as the event loop runs it.                                        *)
(***************************************************************************)
Orders(n) ==
  { f \in [1..n -> 1..n] : \A i, j \in 1..n : i # j => f[i] # f[j] }

\* [...list].sort((a, b) => new Date(a.start) - new Date(b.start)): stable and
\* ascending when every start is a valid date.  With an invalid date the
\* comparator yields NaN, it is no consistent comparator, and the order is
\* implementation-defined: any permutation.
SortResults(list) ==
  LET n == Len(list)
      valid == \A i \in 1..n : list[i].start # <<>>
      before(i, j) == \/ list[i].start[1] < list[j].start[1]
                      \/ list[i].start[1] = list[j].start[1] /\ i < j
  IN  { [k \in 1..n |-> list[f[k]]] :
          f \in { g \in Orders(n) :
                    valid => \A k \in 1..(n - 1) : before(g[k], g[k + 1]) } }


\* classifyWithGemini without the test of the environment
BeginClassify_NoEnvTest(r, event) ==
  pc' = [pc EXCEPT ![r] = "getClient"] /\ UNCHANGED pending

\* classifyWithGemini up to its first await: without configuration it
\* returns the fallback at once
BeginClassify(r, event) ==
  IF configured
  THEN pc' = [pc EXCEPT ![r] = "getClient"] /\ UNCHANGED pending
  ELSE /\ pc' = [pc EXCEPT ![r] = "resume"]
       /\ pending' = [pending EXCEPT ![r] = fallbackClassification(event)]


\* the handler with const enriched at module level: the list a request
\* replies with holds what the other request has scored
Respond_SharedList(r, enriched) ==
  /\ pc' = [pc EXCEPT ![r] = "done"]
  /\ reply' = [reply EXCEPT
                 ![r] = [status |-> 200,
                         events |-> reply[CHOOSE q \in Requests : q # r].events
                                      \o enriched,
                         summary |-> buildDailySummary(
                                       reply[CHOOSE q \in Requests : q # r].events
                                         \o enriched)]]
  /\ UNCHANGED pending

\* const summary = buildDailySummary(enriched); res.json({events: enriched, summary})
Respond(r, enriched) ==
  /\ pc' = [pc EXCEPT ![r] = "done"]
  /\ reply' = [reply EXCEPT
                 ![r] = [status |-> 200, events |-> enriched,
                         summary |-> buildDailySummary(enriched)]]
  /\ UNCHANGED pending


\* computeEventLoads with let runningCapacity at module level: a run starts
\* from the capacity the run before it has left
Proceed_SharedCapacity(r, evs, cls) ==
  IF Len(cls) < Len(evs)
  THEN BeginClassify(r, evs[Len(cls) + 1]) /\ UNCHANGED reply
  ELSE Respond(r, ScoreFrom(cls, 1, <<>>,
                            IF \E q \in Requests : reply[q].events # <<>>
                            THEN LET q == CHOOSE q \in Requests :
                                            reply[q].events # <<>>
                                 IN  reply[q].events[Len(reply[q].events)]
                                       .capacityRemaining
                            ELSE FullCapacity))

\* the handler from the head of its for loop to its next await or to its end
Proceed(r, evs, cls) ==
  IF Len(cls) < Len(evs)
  THEN BeginClassify(r, evs[Len(cls) + 1]) /\ UNCHANGED reply
  ELSE Respond(r, computeEventLoads(cls))

\* the event whose classification is in flight
Current(r) == events[r][Len(classified[r]) + 1]

\* classifyWithGemini returns c: the caller's await resumes in a later step
Return(r, c) ==
  /\ pc' = [pc EXCEPT ![r] = "resume"]
  /\ pending' = [pending EXCEPT ![r] = c]
  /\ UNCHANGED <<BASELINES, configured, mockEvents, events, classified, response, reply>>

HandleRequest(r) ==
  /\ pc[r] = "idle"
  /\ \E sorted \in SortResults(mockEvents) :
       /\ events' = [events EXCEPT ![r] = sorted]
       /\ Proceed(r, sorted, <<>>)
  /\ UNCHANGED <<BASELINES, configured, mockEvents, classified, response>>

\* const classification = await ...; classified.push({...event, classification});
\* the call that returned is over, and with it the response it read
Resume(r) ==
  /\ pc[r] = "resume"
  /\ LET cls == Append(classified[r],
                       ("classification" :> pending[r]) @@ Current(r))
     IN  /\ classified' = [classified EXCEPT ![r] = cls]
         /\ Proceed(r, events[r], cls)
  /\ response' = [response EXCEPT ![r] = NoResponse]
  /\ UNCHANGED <<BASELINES, configured, mockEvents, events>>

GetClientResolve(r) ==
  /\ pc[r] = "getClient"
  /\ pc' = [pc EXCEPT ![r] = "getAccessToken"]
  /\ UNCHANGED <<BASELINES, configured, mockEvents, events, classified, pending, response,
                 reply>>

GetClientReject(r) ==
  /\ pc[r] = "getClient"
  /\ Return(r, fallbackClassification(Current(r)))

GetAccessTokenResolve(r) ==
  /\ pc[r] = "getAccessToken"
  /\ pc' = [pc EXCEPT ![r] = "fetch"]
  /\ UNCHANGED <<BASELINES, configured, mockEvents, events, classified, pending, response,
                 reply>>

GetAccessTokenReject(r) ==
  /\ pc[r] = "getAccessToken"
  /\ Return(r, fallbackClassification(Current(r)))

\* fetch resolves: a response that is not ok returns the fallback, any other
\* is read by await response.json()
FetchResolve(r) ==
  /\ pc[r] = "fetch"
  /\ \E resp \in Responses :
       IF ~resp.ok
       THEN Return(r, fallbackClassification(Current(r)))
       ELSE /\ pc' = [pc EXCEPT ![r] = "json"]
            /\ response' = [response EXCEPT ![r] = resp]
            /\ UNCHANGED <<BASELINES, configured, mockEvents, events, classified, pending,
                           reply>>

FetchReject(r) ==
  /\ pc[r] = "fetch"
  /\ Return(r, fallbackClassification(Current(r)))

\* response.json() settles: a body that is no JSON rejects, which is caught
JsonSettle(r) ==
  /\ pc[r] = "json"
  /\ Return(r, IF response[r].json
               THEN parseGeminiOutput(response[r].text, Current(r))
               ELSE fallbackClassification(Current(r)))

\* the steps the event loop runs by itself, and those the outside world takes
Internal(r) == HandleRequest(r) \/ Resume(r)

External(r) ==
  \/ GetClientResolve(r) \/ GetClientReject(r)
  \/ GetAccessTokenResolve(r) \/ GetAccessTokenReject(r)
  \/ FetchResolve(r) \/ FetchReject(r)
  \/ JsonSettle(r)

Next == Internal("r1") \/ External("r1")

Spec == Init /\ [][Next]_vars

\* A step of the handler, told by what it leaves behind and not by what it
\* computes: from idle or resume the handler moves on, and from resume it has
\* pushed the classification that came back. On the behaviours of Spec these
\* are exactly the steps of Internal(r), and Internal(r) is enabled exactly
\* when the handler is at idle or at resume.
Scheduled(r) ==
  /\ pc[r] \in {"idle", "resume"}
  /\ \E position \in {"getClient", "resume", "done"} :
       pc' = [pc EXCEPT ![r] = position]
  /\ classified' = IF pc[r] = "idle" THEN classified
                   ELSE [classified EXCEPT
                           ![r] = Append(classified[r],
                                         ("classification" :> pending[r])
                                           @@ Current(r))]

\* The event loop runs a continuation that is ready, the auth library settles
\* and a body that has begun to arrive is read to its end; nothing in the code
\* makes fetch settle.
FairSpec ==
  /\ Spec
  /\ WF_<<pc, classified>>(Scheduled("r1"))
  /\ WF_vars(GetClientResolve("r1") \/ GetClientReject("r1"))
  /\ WF_vars(GetAccessTokenResolve("r1") \/ GetAccessTokenReject("r1"))
  /\ WF_vars(JsonSettle("r1"))

\* Two requests in flight at once: the event loop runs a step of either at
\* each turn. The schedules are those of the first SharedPoolSize events.
SharedPoolSize == 2

ConcurrentInit ==
  /\ Init
  /\ \A i \in DOMAIN mockEvents : mockEvents[i].id <= SharedPoolSize

NextAll == \E r \in Requests : Internal(r) \/ External(r)

Concurrent == ConcurrentInit /\ [][NextAll]_vars

(***************************************************************************)
(* The claims.                                                             *)
(***************************************************************************)
Done(r) == pc[r] = "done"

\* the scored events and the summary a finished request replied with
Scored(r) == reply[r].events

InUnit(x) == FLeq(Zero, x) /\ FLeq(x, FromInt(1))

HasDates(e) == e.start # <<>> /\ e.end # <<>>

\* C1: the capacityRemaining values of the scored events are non-increasing
\* from one event to the next, starting from 100, and each lies in [0, 100].
C1_CapacityNonIncreasing ==
  \A r \in Requests : Done(r) =>
    \A i \in 1..Len(Scored(r)) :
      /\ FLeq(Zero, Scored(r)[i].capacityRemaining)
      /\ FLeq(Scored(r)[i].capacityRemaining,
              IF i = 1 THEN FullCapacity ELSE Scored(r)[i - 1].capacityRemaining)


\* C2: classifyWithGemini never fails its caller: with credentials missing,
\* on an auth or transport error, on a response that is not 2xx, and on a
\* body or text that is empty, no JSON or no JSON object, the call returns
\* fallbackClassification(event).
BadBody(resp) ==
  \/ ~resp.json
  \/ resp.text.syntax # "json"
  \/ resp.text.value.kind # "object"

C2_FailureStep(r) ==
  /\ pc'[r] = "resume"
  /\ \/ ~configured
     \/ pc[r] \in {"getClient", "getAccessToken", "fetch"}
     \/ pc[r] = "json" /\ BadBody(response[r])

C2_NeverFailsCaller ==
  [][\A r \in Requests :
       C2_FailureStep(r) =>
         pending'[r] = fallbackClassification(events'[r][Len(classified'[r]) + 1])]_vars

C2_Witness ==
  \E r \in Requests :
    /\ pc[r] = "resume"
    /\ response[r].ok /\ response[r].json
    /\ response[r].text.value.kind = "null"
    /\ pending[r] = fallbackClassification(Current(r))

\* C3: a parsed response is accepted only if meeting_type, role and
\* emotional_intensity are present and topic_tags, if present, is a sequence;
\* every other shape yields the fallback classification of the event.
Acceptable(text) ==
  /\ text.syntax = "json"
  /\ text.value.kind = "object"
  /\ ~Falsy(text.value.meeting_type)
  /\ ~Falsy(text.value.role)
  /\ ~Falsy(text.value.emotional_intensity)
  /\ text.value.topic_tags.kind \in {"absent", "array"}

C3_OtherShapesFallBack ==
  \A r \in Requests :
    (pc[r] = "resume" /\ response[r].ok /\ response[r].json
       /\ ~Acceptable(response[r].text))
      => pending[r] = fallbackClassification(Current(r))

\* C4: every classification call eventually completes, so a request that has
\* begun always eventually reaches the scoring phase and replies.
C4_EventuallyScored == (pc["r1"] # "idle") ~> Done("r1")

\* C5: for a non-empty scored list the summary's capacityRemaining,
\* max(0, 100 - sum of all capacityCost), equals the capacityRemaining of the
\* last scored event (equal as values: NaN counts as equal to NaN).
C5_SummaryEqualsLast ==
  \A r \in Requests : (Done(r) /\ Scored(r) # <<>>) =>
    reply[r].summary.capacityRemaining
      = Scored(r)[Len(Scored(r))].capacityRemaining

\* C6: the first scored event has contextSwitchCost = 0 and so totalLoad =
\* mentalLoad (equal as values), whatever its topic tags and start time.
C6_FirstHasNoSwitchCost ==
  \A r \in Requests : (Done(r) /\ Scored(r) # <<>>) =>
    /\ Scored(r)[1].contextSwitchCost = Zero
    /\ Scored(r)[1].totalLoad = Scored(r)[1].mentalLoad

C6_Witness ==
  \E r \in Requests :
    /\ Done(r) /\ Len(Scored(r)) >= 2
    /\ Scored(r)[1].classification.topic_tags # <<>>
    /\ Scored(r)[1].contextSwitchCost = Zero
    /\ Scored(r)[2].contextSwitchCost # Zero

\* C7: for every scored event with valid dates mentalLoad,
\* contextSwitchCost, totalLoad, socialLoad and the factors complexity,
\* roleLoad and emotionalLoad (the defaults included) lie in [0, 1]; and so
\* does the summary's totalLoad when every event has valid dates.
C7_NormalizedInUnit ==
  \A r \in Requests : Done(r) =>
    /\ \A i \in 1..Len(Scored(r)) : HasDates(Scored(r)[i]) =>
         /\ InUnit(Scored(r)[i].mentalLoad)
         /\ InUnit(Scored(r)[i].contextSwitchCost)
         /\ InUnit(Scored(r)[i].totalLoad)
         /\ InUnit(Scored(r)[i].socialLoad)
         /\ InUnit(Scored(r)[i].explanation.complexity)
         /\ InUnit(Scored(r)[i].explanation.roleLoad)
         /\ InUnit(Scored(r)[i].explanation.emotionalLoad)
    /\ (\A i \in 1..Len(Scored(r)) : HasDates(Scored(r)[i]))
         => InUnit(reply[r].summary.totalLoad)

\* a long meeting of a type outside the enumeration: the default complexity
\* is used and the mental load is cut to 1
C7_Witness ==
  \E r \in Requests : Done(r) /\ \E i \in 1..Len(Scored(r)) :
    /\ HasDates(Scored(r)[i])
    /\ Scored(r)[i].classification.meeting_type \notin DOMAIN BASELINES.meetingType
    /\ Scored(r)[i].explanation.complexity = DefaultComplexity
    /\ Scored(r)[i].mentalLoad = FromInt(1)

\* C8: an event whose end is not after its start, or whose start or end is
\* missing, is scored with durationMinutes = 15 and numeric load fields; in
\* every case durationMinutes >= 15.
C8_DurationFloor ==
  \A r \in Requests : Done(r) =>
    \A i \in 1..Len(Scored(r)) :
      /\ FLeq(FromInt(15), Scored(r)[i].durationMinutes)
      /\ (~HasDates(Scored(r)[i])
            \/ Scored(r)[i].end[1] <= Scored(r)[i].start[1])
           => /\ Scored(r)[i].durationMinutes = FromInt(15)
              /\ ~Scored(r)[i].mentalLoad.nan
              /\ ~Scored(r)[i].totalLoad.nan
              /\ ~Scored(r)[i].capacityCost.nan

\* C9: for an empty schedule computeEventLoads returns the empty list and
\* buildDailySummary returns {totalLoad: 0, capacityRemaining: 100,
\* highRisk: false}.
C9_EmptyInput ==
  \A r \in Requests : (Done(r) /\ classified[r] = <<>>) =>
    /\ Scored(r) = <<>>
    /\ reply[r].summary
         = [totalLoad |-> Zero, capacityRemaining |-> FromInt(100),
            highRisk |-> FALSE]

C9_Witness == Done("r1") /\ mockEvents = <<>> /\ reply["r1"].status = 200

\* C10: the fallback classification has all four fields populated, each
\* the event's hint when there is one and else status, contributor, routine
\* and ["general"].
HintOr(hint, dflt) == IF hint = Undefined THEN dflt ELSE hint

C10_FallbackTotal ==
  \A r \in Requests : ~configured =>
    \A i \in 1..Len(classified[r]) :
      LET e == classified[r][i]
          c == e.classification
      IN  /\ c.meeting_type # Undefined /\ c.role # Undefined
          /\ c.emotional_intensity # Undefined
          /\ c.meeting_type = HintOr(e.meetingType, "status")
          /\ c.role = HintOr(e.userRole, "contributor")
          /\ c.emotional_intensity = HintOr(e.emotionalIntensity, "routine")
          /\ c.topic_tags = IF e.topicTags.kind = "absent" THEN <<"general">>
                            ELSE e.topicTags.items

C10_Witness ==
  \E r \in Requests : ~configured /\ \E i \in 1..Len(classified[r]) :
    /\ classified[r][i].meetingType = Undefined
    /\ classified[r][i].userRole = Undefined
    /\ classified[r][i].emotionalIntensity = Undefined
    /\ classified[r][i].topicTags.kind = "absent"
    /\ classified[r][i].classification
         = [meeting_type |-> "status", role |-> "contributor",
            emotional_intensity |-> "routine", topic_tags |-> <<"general">>]

\* The worked example: two 60-minute events back to back, the first
\* standup/listener/routine with tags ["infra"], the second
\* decision/decision_maker/conflict with tags ["product"].
WorkedExample(r) ==
  /\ Done(r) /\ Len(Scored(r)) = 2
  /\ Scored(r)[1].durationMinutes = FromInt(60)
  /\ Scored(r)[2].durationMinutes = FromInt(60)
  /\ Scored(r)[2].start = Scored(r)[1].end
  /\ Scored(r)[1].classification
       = [meeting_type |-> "standup", role |-> "listener",
          emotional_intensity |-> "routine", topic_tags |-> <<"infra">>]
  /\ Scored(r)[2].classification
       = [meeting_type |-> "decision", role |-> "decision_maker",
          emotional_intensity |-> "conflict", topic_tags |-> <<"product">>]

\* the mental load by the formula, with the factors of the baseline tables
TableMentalLoad(c, durationMinutes) ==
  clamp(mentalLoadRaw(durationMinutes, BASELINES.meetingType[c.meeting_type],
                      BASELINES.roleLoad[c.role],
                      BASELINES.emotionalLoad[c.emotional_intensity]))

\* C12 (as amended): in the worked example the first event's mentalLoad is
\* 0.23 and the second event's is 0.96, each the clamped formula value with
\* the factors of the baseline tables (standup 0.2, listener 0.3, routine 0.2;
\* decision 0.9, decision_maker 1.0, conflict 1.0).
C12_WorkedMentalLoad ==
  \A r \in Requests : WorkedExample(r) =>
    /\ Scored(r)[1].mentalLoad = Num(230)
    /\ Scored(r)[2].mentalLoad = Num(960)
    /\ \A i \in 1..2 :
         Scored(r)[i].mentalLoad
           = TableMentalLoad(Scored(r)[i].classification,
                             Scored(r)[i].durationMinutes)

\* C12 as stated: the first mentalLoad is 0.29 and the second is 1.0
C12_AsStated ==
  \A r \in Requests : WorkedExample(r) =>
    /\ Scored(r)[1].mentalLoad = Num(290)
    /\ Scored(r)[2].mentalLoad = FromInt(1)

C12_Witness ==
  \E r \in Requests :
    /\ WorkedExample(r)
    /\ Scored(r)[1].explanation.complexity = Num(200)
    /\ Scored(r)[2].explanation.complexity = Num(900)

\* C13: in the worked example the second event has contextSwitchCost = 1.0,
\* totalLoad = 1.0 and capacityCost = 100, its capacityRemaining is 0, and
\* the summary has highRisk = true.
C13_WorkedSwitch ==
  \A r \in Requests : WorkedExample(r) =>
    /\ Scored(r)[2].contextSwitchCost = FromInt(1)
    /\ Scored(r)[2].totalLoad = FromInt(1)
    /\ Scored(r)[2].capacityCost = FromInt(100)
    /\ Scored(r)[2].capacityRemaining = Zero
    /\ reply[r].summary.highRisk

C13_Witness ==
  \E r \in Requests :
    /\ WorkedExample(r)
    /\ Scored(r)[1].contextSwitchCost = Zero
    /\ FLess(Zero, Scored(r)[1].capacityRemaining)
    /\ Scored(r)[2].capacityRemaining = Zero
    /\ reply[r].summary.capacityRemaining = Zero

\* the enumerations the prompt allows, and the most tags it allows
MeetingTypes ==
  {"standup", "status", "demo", "planning", "brainstorming", "design_review",
   "decision", "conflict"}

Roles == {"listener", "occasional_contributor", "contributor", "decision_maker"}

EmotionalIntensities == {"routine", "external", "feedback", "performance", "conflict"}

MaxTags == 3

WellFormed(c) ==
  /\ c.meeting_type \in MeetingTypes
  /\ c.role \in Roles
  /\ c.emotional_intensity \in EmotionalIntensities
  /\ Len(c.topic_tags) <= MaxTags

\* C14: every classification classifyWithGemini returns has meeting_type,
\* role and emotional_intensity in their enumerations and at most 3 tags; a
\* response outside them triggers the fallback. Stated for events whose own
\* hints are well-formed, so that the fallback is well-formed.
C14_ClosedEnumerations ==
  \A r \in Requests :
    (pc[r] = "resume" /\ WellFormed(fallbackClassification(Current(r))))
      => WellFormed(pending[r])

\* what holds of a request while the configuration is absent: no external
\* call is in flight or was read, every classification is the fallback of its
\* event, and a finished request replied 200 with every event scored
OnlyFallback(r) ==
  /\ pc[r] \in {"idle", "resume", "done"}
  /\ response[r] = NoResponse
  /\ pc[r] = "resume" => pending[r] = fallbackClassification(Current(r))
  /\ \A i \in 1..Len(classified[r]) :
       classified[r][i].classification = fallbackClassification(events[r][i])
  /\ Done(r) => /\ reply[r].status = 200
                /\ Len(Scored(r)) = Len(mockEvents)

\* C16: with GCP_PROJECT_ID or GCP_LOCATION unset classifyWithGemini returns
\* the fallback for every event, issues no external call and raises no error,
\* and the request ends with scored events and a summary.
C16_Unconfigured ==
  /\ [](~configured => \A r \in Requests : OnlyFallback(r))
  /\ (~configured) ~> Done("r1")

C16_Witness ==
  /\ ~configured /\ Done("r1")
  /\ Len(Scored("r1")) = 2 /\ reply["r1"].status = 200
  /\ \A i \in 1..2 :
       Scored("r1")[i].classification = fallbackClassification(events["r1"][i])

\* the tags two scored events share
SharedTags(e, prev) ==
  { e.classification.topic_tags[i] : i \in DOMAIN e.classification.topic_tags }
    \cap { prev.classification.topic_tags[j] :
             j \in DOMAIN prev.classification.topic_tags }

\* max(0, start(current) - end(previous)) in minutes
Gap(e, prev) ==
  IF e.start[1] > prev.end[1] THEN e.start[1] - prev.end[1] ELSE 0

\* topicCost * dampener in thousandths: 0.3 or 1.0 times 1.0, 0.8, 0.5 or 0.2
SwitchThousandths(e, prev) ==
  ((IF SharedTags(e, prev) # {} THEN 300 ELSE 1000)
     * (IF Gap(e, prev) <= 5 THEN 1000 ELSE IF Gap(e, prev) <= 15 THEN 800
        ELSE IF Gap(e, prev) <= 30 THEN 500 ELSE 200)) \div 1000

SwitchValues ==
  {Num(60), Num(150), Num(240), Num(300), Num(200), Num(500), Num(800), Num(1000)}

\* C17: every scored event after the first has contextSwitchCost =
\* clamp01(topicCost * dampener), topicCost 0.3 if it shares a tag with the
\* event before it and 1.0 otherwise, dampener 1.0, 0.8, 0.5, 0.2 for a gap
\* <= 5, <= 15, <= 30, > 30 minutes; the value is one of 0.06, 0.15, 0.24,
\* 0.3, 0.2, 0.5, 0.8, 1.0 and never 0.
C17_SwitchCostValues ==
  \A r \in Requests : Done(r) =>
    \A i \in 2..Len(Scored(r)) :
      /\ Scored(r)[i].contextSwitchCost \in SwitchValues
      /\ Scored(r)[i].contextSwitchCost # Zero
      /\ (Scored(r)[i].start # <<>> /\ Scored(r)[i - 1].end # <<>>)
           => Scored(r)[i].contextSwitchCost
                = Num(SwitchThousandths(Scored(r)[i], Scored(r)[i - 1]))

\* a shared tag and a gap of exactly 30 minutes: 0.3 * 0.5
C17_Witness ==
  \E r \in Requests : Done(r) /\ \E i \in 2..Len(Scored(r)) :
    /\ Scored(r)[i].start # <<>> /\ Scored(r)[i - 1].end # <<>>
    /\ Gap(Scored(r)[i], Scored(r)[i - 1]) = 30
    /\ SharedTags(Scored(r)[i], Scored(r)[i - 1]) # {}
    /\ Scored(r)[i].contextSwitchCost = Num(150)

\* the scored list of a finished request carries every field of its input
\* unchanged, position by position
InputKept(r) ==
  /\ Len(Scored(r)) = Len(classified[r])
  /\ \A i \in 1..Len(classified[r]) :
       \A field \in DOMAIN classified[r][i] :
         Scored(r)[i][field] = classified[r][i][field]

\* C11: scoring the same classified, sorted list twice yields identical scored
\* lists, and no run changes its input or the baseline tables.
C11_Deterministic ==
  /\ [](\A r \in Requests : Done(r) =>
          /\ InputKept(r)
          /\ \A q \in Requests :
               (Done(q) /\ classified[q] = classified[r])
                 => Scored(q) = Scored(r))
  /\ [][BASELINES' = BASELINES]_vars

C11_Witness ==
  /\ Done("r1") /\ Done("r2")
  /\ Len(classified["r1"]) = 2
  /\ classified["r1"] = classified["r2"]
  /\ Scored("r1") = Scored("r2")
  /\ Scored("r1")[2].capacityRemaining # Scored("r1")[1].capacityRemaining

\* C15: with two requests interleaved at their awaits, each finished
\* request's scored events and summary are what its own classified list gives
\* when scored alone from a capacity of 100, and no step changes the tables.
C15_Independent ==
  /\ [](\A r \in Requests : Done(r) =>
          /\ Scored(r) = computeEventLoads(classified[r])
          /\ reply[r].summary = buildDailySummary(Scored(r)))
  /\ [][BASELINES' = BASELINES]_vars

\* the second request has run to its reply while the first is suspended at
\* fetch for its second event, and was classified otherwise
C15_Witness ==
  /\ pc["r1"] = "fetch" /\ Len(classified["r1"]) = 1
  /\ Done("r2") /\ Len(Scored("r2")) = 2
  /\ Scored("r2")[1].classification # classified["r1"][1].classification

====
